---- MODULE Spec2Model ----
(***************************************************************************)
(* misskey-channel-archiver (src/src/main.rs).                             *)
(*                                                                         *)
(* Two parts are modelled:                                                 *)
(*   - the run of `main`: the Archive crawl loop and the FetchUser loop,   *)
(*     with the two `send` functions, the transport's answers and the      *)
(*     two output streams (specifications Spec and LiveSpec);              *)
(*   - CanonicalEmojiKey deserialization ("classify") and serialization    *)
(*     ("render") as pure functions on strings of code points              *)
(*     (specification ClassifySpec).                                       *)
(***************************************************************************)
EXTENDS Integers, Sequences, FiniteSets, TLC

VARIABLES
    mode,        \* which Args variant was parsed: "Archive" or "FetchUser"
    before,      \* Args::Archive.before   (Option<NoteId>)
    after,       \* Args::Archive.after    (Option<NoteId>)
    token,       \* Args::*.token          (MisskeyAuthorizationToken)
    channel_id,  \* Args::Archive.channel_id
    user,        \* Args::FetchUser.user   (Vec<UserId>), the part not yet iterated
    channel,     \* the upstream channel: note id -> creation time and author
    pc,          \* position of main: send, await, sleep, done, failed, panicked
    last_note,   \* main: `let mut last_note` (the crawl cursor)
    users,       \* main: `let mut users` (HashSet<UserId>)
    user_info,   \* main: `let mut user_info` (Vec<DetailedUser>)
    requests,    \* bodies handed to the transport by .json(&wtr).send()
    responses,   \* what the transport answered, in order
    stdout,      \* lines written with println!
    stderr,      \* lines written with eprintln! and by the panic/exit path
    raw,         \* classifier input string (sequence of code points)
    key,         \* classify(raw)
    rendered,    \* render(key)
    key2,        \* classify(rendered)
    stage        \* position of the classify/render/classify pipeline

vars == <<mode, before, after, token, channel_id, user, channel, pc, last_note,
          users, user_info, requests, responses, stdout, stderr,
          raw, key, rendered, key2, stage>>

crawlVars == <<mode, before, after, token, channel_id, user, channel, pc,
               last_note, users, user_info, requests, responses, stdout, stderr>>

keyVars == <<raw, key, rendered, key2, stage>>

(***************************************************************************)
(* Bounds of the model.                                                    *)
(***************************************************************************)
MaxPageLen == 2   \* notes per returned page (a page holds a note at most once)
MaxPages == 2     \* non-empty pages the upstream returns before it runs dry
MaxTime == 2      \* creation times are 1..MaxTime
MaxUsers == 2     \* length of the --user list
MaxRawLen == 5    \* length of a raw reaction string, in code points

(***************************************************************************)
(* Value domains.                                                          *)
(***************************************************************************)
None == "None"
NoteIds == {"n1", "n2"}
UserIds == {"u1", "u2"}
ChannelIds == {"ch1"}
Tokens == {"tokA", "tokB"}
Times == 1..MaxTime
ScreenNames == {None, "name"}

\* limit: 60.try_into().unwrap()
PageLimit == 60

\* struct Note, reduced to the fields main reads: id, created_at, user.id
Note(id) == [id |-> id, created_at |-> channel[id].created_at, user |-> channel[id].user]

Channels == [NoteIds -> [created_at : Times, user : UserIds]]

SeqsUpTo(S, n) == UNION {[1..k -> S] : k \in 0..n}

\* A page the timeline endpoint may answer with: notes of the channel, each at
\* most once, in any order (the code assumes nothing about which or in what order).
Pages ==
    {[i \in DOMAIN s |-> Note(s[i])] :
        s \in {t \in SeqsUpTo(NoteIds, MaxPageLen) :
                  \A i, j \in DOMAIN t : i # j => t[i] # t[j]}}

\* struct DetailedUser, reduced to id and screen_name
Profiles == [id : UserIds, screen_name : ScreenNames]

(***************************************************************************)
(* Text rendering.  A text is a sequence of fragments; a value that is     *)
(* interpolated into a text is one fragment of it.                         *)
(***************************************************************************)
Contains(text, value) == \E i \in DOMAIN text : text[i] = value

\* <MisskeyAuthorizationToken as Debug>::fmt
DebugFmt(t) == <<"MisskeyAuthorizationToken { value: ", "\"*****\"", " }">>

OptField(name, v) == IF v = None THEN <<>> ELSE <<name, v>>

\* WithTokenRef<ChannelTimelineCommand> as handed to serde
TimelineBody(t, c, a, b) ==
    [i |-> t, channelId |-> c, limit |-> PageLimit, sinceId |-> a, untilId |-> b]

\* WithTokenRef<UserDetailCommand> as handed to serde
UserBody(t, u) == [i |-> t, userId |-> u]

\* serde_json::to_string(&wtr): derive(Serialize) of the token is the plain string
to_string(body) ==
    IF "userId" \in DOMAIN body
    THEN <<"{\"i\":", body.i, ",\"userId\":", body.userId, "}">>
    ELSE <<"{\"i\":", body.i, ",\"channelId\":", body.channelId, ",\"limit\":", "60">>
            \o OptField(",\"sinceId\":", body.sinceId)
            \o OptField(",\"untilId\":", body.untilId)
            \o <<"}">>

(***************************************************************************)
(* CanonicalEmojiKey.  A string is a sequence of Unicode code points.      *)
(***************************************************************************)
Colon == 58         \* ':'
LowerA == 97        \* 'a'
At == 64            \* '@'
Dot == 46           \* '.'
Digit0 == 48        \* '0'
Digit1 == 49        \* '1'
Keycap == 8419      \* '\u{20e3}' COMBINING ENCLOSING KEYCAP
Grinning == 128512  \* U+1F600, an emoji of the registry

Chars == {Colon, LowerA, At, Dot, Digit1, Keycap, Grinning}
RawStrings == SeqsUpTo(Chars, MaxRawLen)

\* emojis::iter(): the as_str() of every emoji of the registry, cut to Chars
Emojis == {<<Grinning>>}

\* char::is_ascii_digit
is_ascii_digit(c) == c \in 48..57

\* the class [a-z0-9_-] of PAT
IsNameChar(c) == c \in 97..122 \/ c \in 48..57 \/ c = 95 \/ c = 45

\* PAT.captures(&raw): ^:([a-z0-9_-]+)@\.:$
PatMatches(s) ==
    /\ Len(s) >= 5
    /\ s[1] = Colon
    /\ s[Len(s) - 2] = At
    /\ s[Len(s) - 1] = Dot
    /\ s[Len(s)] = Colon
    /\ \A i \in 2..(Len(s) - 3) : IsNameChar(s[i])

\* raw[m.get(1).range()]
PatName(s) == SubSeq(s, 2, Len(s) - 3)

\* enum CanonicalEmojiKey; Panic is the unwinding of an expect()
SingleCodepointPunctuation(c) == [tag |-> "SingleCodepointPunctuation", char |-> c]
BoxedSingleDigit(d) == [tag |-> "BoxedSingleDigit", digit |-> d]
Unicode(s) == [tag |-> "Unicode", utf8 |-> s]
Custom(n) == [tag |-> "Custom", name |-> n]
Uncategorized(s) == [tag |-> "Uncategorized", content |-> s]
Panic(m) == [tag |-> "panic", message |-> m]
NoKey == [tag |-> "none"]

\* <CanonicalEmojiKey as Deserialize>::deserialize, after String::deserialize
classify(s) ==
    IF PatMatches(s) THEN Custom(PatName(s))
    ELSE IF s \in Emojis THEN Unicode(s)
    ELSE IF s = <<>> THEN Panic("must not be empty")
    ELSE IF ~is_ascii_digit(s[1]) THEN Uncategorized(s)
    ELSE IF Len(s) < 2 THEN Panic("ow")
    ELSE IF s[2] = Keycap THEN BoxedSingleDigit(s[1] - Digit0)
    ELSE Uncategorized(s)

RECURSIVE Decimal(_)
\* format!("{digit}") of a u8
Decimal(n) ==
    IF n < 10 THEN <<Digit0 + n>>
    ELSE Decimal(n \div 10) \o <<Digit0 + (n % 10)>>

\* a plausible slip: the custom form written without its "@." host part
serialize_short_custom(k) ==
    CASE k.tag = "Unicode" -> k.utf8
      [] k.tag = "Custom" -> <<Colon>> \o k.name \o <<Colon>>
      [] k.tag = "SingleCodepointPunctuation" -> <<k.char>>
      [] k.tag = "BoxedSingleDigit" -> Decimal(k.digit) \o <<Keycap>>
      [] k.tag = "Uncategorized" -> k.content

\* <CanonicalEmojiKey as Serialize>::serialize ("render")
serialize(k) ==
    CASE k.tag = "Unicode" -> k.utf8
      [] k.tag = "Custom" -> <<Colon>> \o k.name \o <<At, Dot, Colon>>
      [] k.tag = "SingleCodepointPunctuation" -> <<k.char>>
      [] k.tag = "BoxedSingleDigit" -> Decimal(k.digit) \o <<Keycap>>
      [] k.tag = "Uncategorized" -> k.content

(***************************************************************************)
(* Helpers of the crawl loop.                                              *)
(***************************************************************************)
RECURSIVE MinFrom(_, _, _)
\* Iterator::min_by_key folds left and keeps the earlier element on a tie.
MinFrom(page, i, best) ==
    IF i > Len(page) THEN best
    ELSE MinFrom(page, i + 1,
                 IF page[i].created_at < best.created_at THEN page[i] ELSE best)

\* a plausible slip: take the last note of the page (pages usually come newest first)
min_by_key_last(page) ==
    IF page = <<>> THEN None ELSE page[Len(page)].id

RECURSIVE MaxFrom(_, _, _)
MaxFrom(page, i, best) ==
    IF i > Len(page) THEN best
    ELSE MaxFrom(page, i + 1,
                 IF page[i].created_at >= best.created_at THEN page[i] ELSE best)

\* a plausible slip: max_by_key where min_by_key is meant
max_by_key(page) ==
    IF page = <<>> THEN None ELSE MaxFrom(page, 2, page[1]).id

\* result.iter().min_by_key(|x| x.created_at).map(|x| x.id.clone())
min_by_key(page) ==
    IF page = <<>> THEN None ELSE MinFrom(page, 2, page[1]).id

\* a plausible slip: keep only the authors of the current page
extend_replacing(set, page) == {page[i].user : i \in DOMAIN page}

\* users.extend(result.into_iter().map(|n| n.user.id))
extend(set, page) == set \cup {page[i].user : i \in DOMAIN page}

LogProceeded(id) == [kind |-> "log", message |-> <<"proceeded by ", id>>]
LogSleep == [kind |-> "log", message |-> <<"sleep">>]
PageLine(page) == [kind |-> "notes", notes |-> page]
UserLine(profile) == [kind |-> "user", profile |-> profile]

NonEmptyCount ==
    Cardinality({i \in DOMAIN responses :
                    responses[i].status = "ok" /\ responses[i].page # <<>>})

(***************************************************************************)
(* Initial states: the state of main after Args::parse().                  *)
(***************************************************************************)
KeyIdle ==
    /\ raw = <<>>
    /\ key = NoKey
    /\ rendered = <<>>
    /\ key2 = NoKey
    /\ stage = "idle"

InitArchive ==
    /\ mode = "Archive"
    /\ before \in NoteIds \cup {None}
    /\ after \in {None, "n2"}
    /\ token \in Tokens
    /\ channel_id \in ChannelIds
    /\ user = <<>>
    /\ channel \in Channels

InitFetchUser ==
    /\ mode = "FetchUser"
    /\ before = None
    /\ after = None
    /\ token \in Tokens
    /\ channel_id = None
    /\ user \in SeqsUpTo(UserIds, MaxUsers)
    /\ channel = [n \in NoteIds |-> [created_at |-> 1, user |-> "u1"]]

Init ==
    /\ InitArchive \/ InitFetchUser
    /\ pc = "send"
    /\ last_note = None
    /\ users = {}
    /\ user_info = <<>>
    /\ requests = <<>>
    /\ responses = <<>>
    /\ stdout = <<>>
    /\ stderr = <<>>
    /\ KeyIdle

(***************************************************************************)
(* Args::Archive                                                           *)
(***************************************************************************)
\* Build ChannelTimelineCommand with note_before: last_note, enter send():
\* eprintln! the serialized body, hand the body to the transport, await.
TimelineSend ==
    /\ mode = "Archive"
    /\ pc = "send"
    /\ LET wtr == TimelineBody(token, channel_id, after, last_note) IN
         /\ stderr' = Append(stderr, to_string(wtr))
         /\ requests' = Append(requests, wtr)
    /\ pc' = "await"
    /\ UNCHANGED <<mode, before, after, token, channel_id, user, channel,
                   last_note, users, user_info, responses, stdout>>
    /\ UNCHANGED keyVars

\* a plausible slip: the page is printed before the emptiness test
RecvPagePrintFirst ==
    /\ mode = "Archive"
    /\ pc = "await"
    /\ \E result \in Pages :
         /\ result # <<>> => NonEmptyCount < MaxPages
         /\ responses' = Append(responses, [status |-> "ok", page |-> result])
         /\ IF result = <<>>
            THEN /\ pc' = "done"
                 /\ stdout' = Append(stdout, PageLine(result))
                 /\ UNCHANGED <<last_note, users>>
            ELSE /\ last_note' = min_by_key(result)
                 /\ stdout' = stdout \o <<LogProceeded(min_by_key(result)),
                                          PageLine(result), LogSleep>>
                 /\ users' = extend(users, result)
                 /\ pc' = "sleep"
    /\ UNCHANGED <<mode, before, after, token, channel_id, user, channel,
                   user_info, requests, stderr>>
    /\ UNCHANGED keyVars

\* send() returns Ok(json); the rest of the loop body up to the sleep.
RecvPage ==
    /\ mode = "Archive"
    /\ pc = "await"
    /\ \E result \in Pages :
         /\ result # <<>> => NonEmptyCount < MaxPages
         /\ responses' = Append(responses, [status |-> "ok", page |-> result])
         /\ IF result = <<>>
            THEN /\ pc' = "done"
                 /\ UNCHANGED <<last_note, stdout, users>>
            ELSE /\ last_note' = min_by_key(result)
                 /\ stdout' = stdout \o <<LogProceeded(min_by_key(result)),
                                          PageLine(result), LogSleep>>
                 /\ users' = extend(users, result)
                 /\ pc' = "sleep"
    /\ UNCHANGED <<mode, before, after, token, channel_id, user, channel,
                   user_info, requests, stderr>>
    /\ UNCHANGED keyVars

\* The page holds a reaction key on which CanonicalEmojiKey::deserialize panics:
\* the panic unwinds through serde_path_to_error::deserialize and main.
RecvClassifyPanic ==
    /\ mode = "Archive"
    /\ pc = "await"
    /\ \E r \in {<<>>, <<Digit1>>} :
         /\ classify(r).tag = "panic"
         /\ stderr' = Append(stderr, <<"panicked: ", classify(r).message>>)
    /\ responses' = Append(responses, [status |-> "decode_panic"])
    /\ pc' = "panicked"
    /\ UNCHANGED <<mode, before, after, token, channel_id, user, channel,
                   last_note, users, user_info, requests, stdout>>
    /\ UNCHANGED keyVars

(***************************************************************************)
(* Both loops                                                              *)
(***************************************************************************)
\* sleep(Duration::new(sleep_sec, sleep_nano)).await, then the next iteration
Sleep ==
    /\ pc = "sleep"
    /\ pc' = "send"
    /\ UNCHANGED <<mode, before, after, token, channel_id, user, channel,
                   last_note, users, user_info, requests, responses, stdout, stderr>>
    /\ UNCHANGED keyVars

\* a plausible slip: a failed request is tried again
RecvTransportErrorRetry ==
    /\ pc = "await"
    /\ responses' = Append(responses, [status |-> "transport_error"])
    /\ stderr' = Append(stderr, <<"Error: ", "<reqwest::Error>">>)
    /\ pc' = IF Len(responses) < MaxPages THEN "send" ELSE "failed"
    /\ UNCHANGED <<mode, before, after, token, channel_id, user, channel,
                   last_note, users, user_info, requests, stdout>>
    /\ UNCHANGED keyVars

\* .send().await? or x.text().await? is Err: `?` returns it from send and from
\* main, the runtime prints "Error: {e:?}" and the process exits with failure.
RecvTransportError ==
    /\ pc = "await"
    /\ responses' = Append(responses, [status |-> "transport_error"])
    /\ stderr' = Append(stderr, <<"Error: ", "<reqwest::Error>">>)
    /\ pc' = "failed"
    /\ UNCHANGED <<mode, before, after, token, channel_id, user, channel,
                   last_note, users, user_info, requests, stdout>>
    /\ UNCHANGED keyVars

\* serde_path_to_error::deserialize is Err: three diagnostics, then panic!
RecvDecodeError ==
    /\ pc = "await"
    /\ responses' = Append(responses, [status |-> "decode_error"])
    /\ stderr' = stderr \o << <<"ERROR: deserialize failed.">>,
                              <<"raw: ", "<response body>">>,
                              <<"status: ", "<status code>">>,
                              <<"panicked: ", "<serde_path_to_error::Error>">> >>
    /\ pc' = "panicked"
    /\ UNCHANGED <<mode, before, after, token, channel_id, user, channel,
                   last_note, users, user_info, requests, stdout>>
    /\ UNCHANGED keyVars

(***************************************************************************)
(* Args::FetchUser                                                         *)
(***************************************************************************)
\* `for user_id in users` takes the next id; UserDetailCommand::send up to the await
UserSend ==
    /\ mode = "FetchUser"
    /\ pc = "send"
    /\ user # <<>>
    /\ LET wtr == UserBody(token, Head(user)) IN
         /\ stderr' = Append(stderr, to_string(wtr))
         /\ requests' = Append(requests, wtr)
    /\ user' = Tail(user)
    /\ pc' = "await"
    /\ UNCHANGED <<mode, before, after, token, channel_id, channel,
                   last_note, users, user_info, responses, stdout>>
    /\ UNCHANGED keyVars

\* send() returns Ok(json): print the profile, push it, print the sleep notice
RecvUser ==
    /\ mode = "FetchUser"
    /\ pc = "await"
    /\ \E result \in Profiles :
         /\ responses' = Append(responses, [status |-> "ok", profile |-> result])
         /\ stdout' = stdout \o <<UserLine(result), LogSleep>>
         /\ user_info' = Append(user_info, result)
    /\ pc' = "sleep"
    /\ UNCHANGED <<mode, before, after, token, channel_id, user, channel,
                   last_note, users, requests, stderr>>
    /\ UNCHANGED keyVars

\* the for loop is exhausted: main returns Ok(())
UserLoopEnd ==
    /\ mode = "FetchUser"
    /\ pc = "send"
    /\ user = <<>>
    /\ pc' = "done"
    /\ UNCHANGED <<mode, before, after, token, channel_id, user, channel,
                   last_note, users, user_info, requests, responses, stdout, stderr>>
    /\ UNCHANGED keyVars

Next ==
    \/ TimelineSend
    \/ RecvPage
    \/ Sleep
    \/ RecvTransportError
    \/ RecvDecodeError
    \/ RecvClassifyPanic
    \/ UserSend
    \/ RecvUser
    \/ UserLoopEnd

Spec == Init /\ [][Next]_vars

\* main is one sequential task: a step that can be taken is taken, and the
\* transport answers every request (with a page, a profile or a failure).
LiveSpec == Init /\ [][Next]_vars /\ WF_vars(Next)

(***************************************************************************)
(* The classifier on its own: classify, render, classify again.            *)
(***************************************************************************)
CrawlIdle ==
    /\ mode = None
    /\ before = None
    /\ after = None
    /\ token = "tokA"
    /\ channel_id = None
    /\ user = <<>>
    /\ channel = [n \in NoteIds |-> [created_at |-> 1, user |-> "u1"]]
    /\ pc = "idle"
    /\ last_note = None
    /\ users = {}
    /\ user_info = <<>>
    /\ requests = <<>>
    /\ responses = <<>>
    /\ stdout = <<>>
    /\ stderr = <<>>

InitClassify ==
    /\ CrawlIdle
    /\ raw \in RawStrings
    /\ key = NoKey
    /\ rendered = <<>>
    /\ key2 = NoKey
    /\ stage = "input"

\* CanonicalEmojiKey::deserialize on the raw string
Classify ==
    /\ stage = "input"
    /\ key' = classify(raw)
    /\ stage' = "classified"
    /\ UNCHANGED <<raw, rendered, key2>>
    /\ UNCHANGED crawlVars

\* CanonicalEmojiKey::serialize on the key (there is no key after a panic)
Render ==
    /\ stage = "classified"
    /\ key.tag # "panic"
    /\ rendered' = serialize(key)
    /\ stage' = "rendered"
    /\ UNCHANGED <<raw, key, key2>>
    /\ UNCHANGED crawlVars

\* CanonicalEmojiKey::deserialize on the rendered string
Reclassify ==
    /\ stage = "rendered"
    /\ key2' = classify(rendered)
    /\ stage' = "reclassified"
    /\ UNCHANGED <<raw, key, rendered>>
    /\ UNCHANGED crawlVars

NextClassify ==
    \/ Classify
    \/ Render
    \/ Reclassify

ClassifySpec == InitClassify /\ [][NextClassify]_vars

(***************************************************************************)
(* Properties.                                                             *)
(***************************************************************************)
Last(q) == q[Len(q)]
IsNotes(line) == line.kind = "notes"
IsOk(r) == r.status = "ok"

\* the pages written to stdout, in the order written
EmittedPages ==
    LET lines == SelectSeq(stdout, IsNotes) IN [i \in DOMAIN lines |-> lines[i].notes]

Failed == {"failed", "panicked"}
AllOk == \A i \in DOMAIN responses : IsOk(responses[i])
NonEmptyOk(r) == IsOk(r) /\ r.page # <<>>
EmptyOk(r) == IsOk(r) /\ r.page = <<>>

\* id names a note of the page whose creation time no note of the page undercuts
IsOldestOf(id, page) ==
    \E i \in DOMAIN page :
        /\ page[i].id = id
        /\ \A j \in DOMAIN page : page[i].created_at <= page[j].created_at

\* C1: in the Archive loop, as long as no fetch fails, the crawler is Done exactly
\* from the first empty page on; in Done it has sent one request per page received,
\* every page before the empty one was non-empty, stdout holds exactly those pages,
\* one batch each, in fetch order, nothing is requested or printed afterwards, and
\* the run gets there (or a fetch fails) after finitely many steps.
CrawlEndsAtFirstEmptyPage ==
    /\ [](mode = "Archive" /\ pc = "done" =>
            /\ responses # <<>>
            /\ EmptyOk(Last(responses))
            /\ \A i \in 1..(Len(responses) - 1) : NonEmptyOk(responses[i])
            /\ EmittedPages = [i \in 1..(Len(responses) - 1) |-> responses[i].page]
            /\ Len(requests) = Len(responses))
    /\ [](mode = "Archive" /\ responses # <<>> /\ EmptyOk(Last(responses)) => pc = "done")
    /\ [][pc = "done" => requests' = requests /\ stdout' = stdout /\ pc' = "done"]_vars
    /\ <>(pc = "done" \/ ~AllOk)

\* C1 witness: Done after two non-empty pages and the empty one
DoneAfterTwoPages ==
    /\ mode = "Archive"
    /\ pc = "done"
    /\ Len(responses) = 3
    /\ Len(EmittedPages) = 2

\* C2 (as claimed): the cursor starts at `before`, so the first request of an
\* Archive run carries `before` as its untilId.
FirstRequestCarriesBefore ==
    mode = "Archive" /\ requests # <<>> =>
        /\ requests[1].untilId = before
        /\ (Len(requests) = 1 /\ pc = "await" => last_note = before)

\* C3: after a step that fetched a non-empty page the cursor is the id of a note
\* of that page that no note of the page is older than, whatever the page's order,
\* and the next request carries exactly that id as untilId.
CursorIsOldestOfPage ==
    mode = "Archive" =>
        \A k \in DOMAIN responses :
            NonEmptyOk(responses[k]) =>
                /\ k = Len(responses) => IsOldestOf(last_note, responses[k].page)
                /\ k < Len(requests) =>
                      /\ requests[k + 1].untilId # None
                      /\ IsOldestOf(requests[k + 1].untilId, responses[k].page)

\* C3 witness: the next request is out after a page that listed its oldest note first
RequestAfterUnsortedPage ==
    /\ mode = "Archive"
    /\ Len(requests) = 2
    /\ Len(responses) = 1
    /\ Len(responses[1].page) = 2
    /\ responses[1].page[1].created_at < responses[1].page[2].created_at

CursorUpdate == mode = "Archive" /\ pc = "await" /\ pc' = "sleep"
CreatedAt(id) == channel[id].created_at

\* C4 (as claimed): whatever pages the upstream returns, every cursor update names a
\* note created strictly earlier than the note named by the previous update, and an
\* empty page ends the crawl without an update.
CursorAlwaysMovesBackward ==
    [][/\ CursorUpdate /\ last_note # None => CreatedAt(last_note') < CreatedAt(last_note)
       /\ mode = "Archive" /\ pc = "await" /\ pc' = "done" => last_note' = last_note]_vars

\* C4 (amended): a cursor update moves the cursor strictly backward in time whenever
\* the page holds at least one note created earlier than the note named by the
\* previous update; an empty page ends the crawl without an update.
CursorMovesBackwardPastOlderNote ==
    [][/\ ( /\ CursorUpdate
            /\ last_note # None
            /\ \E i \in DOMAIN Last(responses').page :
                  Last(responses').page[i].created_at < CreatedAt(last_note) )
          => CreatedAt(last_note') < CreatedAt(last_note)
       /\ mode = "Archive" /\ pc = "await" /\ pc' = "done" => last_note' = last_note]_vars

\* C4 witness: two updates, the second from a page that mixes an older note with
\* the note the first update named
SecondUpdateWentBackward ==
    /\ mode = "Archive"
    /\ pc = "sleep"
    /\ Len(responses) = 2
    /\ Len(responses[2].page) = 2
    /\ CreatedAt(last_note) < CreatedAt(min_by_key(responses[1].page))

Variants == {"Custom", "Unicode", "BoxedSingleDigit", "SingleCodepointPunctuation",
             "Uncategorized"}

\* C5 (as claimed): classify never fails: every raw string, the empty one and a lone
\* ASCII digit included, yields a variant, and the empty string yields
\* Uncategorized with empty content.
ClassifyIsTotal ==
    stage = "classified" =>
        /\ key.tag \in Variants
        /\ raw = <<>> => key = Uncategorized(<<>>)

\* C6: for every key k that classify produces, classify(render(k)) = k.
RoundTripIsFixedPoint ==
    stage = "reclassified" => key2 = key

\* C6 witness: a Custom key went through render and classify
CustomKeyRoundTripped ==
    /\ stage = "reclassified"
    /\ key.tag = "Custom"
    /\ rendered = raw

StartsWithKeycapDigit(s) == Len(s) >= 2 /\ is_ascii_digit(s[1]) /\ s[2] = Keycap

\* C7 (as claimed): BoxedSingleDigit comes only from a raw string of exactly two
\* characters, an ASCII digit and U+20E3, holds that digit's value, and renders back
\* to the raw string; a longer string that starts with digit + U+20E3 and is neither
\* Custom nor Unicode is Uncategorized with the raw string kept.
BoxedDigitOnlyForExactPair ==
    stage = "rendered" =>
        /\ key.tag = "BoxedSingleDigit" =>
              /\ Len(raw) = 2
              /\ StartsWithKeycapDigit(raw)
              /\ key.digit = raw[1] - Digit0
              /\ rendered = raw
        /\ ( /\ StartsWithKeycapDigit(raw)
             /\ Len(raw) > 2
             /\ ~PatMatches(raw)
             /\ raw \notin Emojis ) => key = Uncategorized(raw)

\* C8 (as claimed): the token is in no diagnostic output: not in its Debug
\* rendering and in no line of stderr.
TokenNeverInDiagnostics ==
    /\ ~Contains(DebugFmt(token), token)
    /\ \A i \in DOMAIN stderr : ~Contains(stderr[i], token)

AuthorsOf(pages) == UNION {{pages[i][j].user : j \in DOMAIN pages[i]} : i \in DOMAIN pages}

\* C9: in an Archive run the user set never loses a member, and it is always the
\* set of authors of the notes of the pages printed so far.
UsersAreAuthorsOfEmittedPages ==
    /\ [](mode = "Archive" => users = AuthorsOf(EmittedPages))
    /\ [][users \subseteq users']_vars

\* C9 witness: two pages printed, the second by one author, two authors known
TwoAuthorsAfterTwoPages ==
    /\ mode = "Archive"
    /\ Len(EmittedPages) = 2
    /\ Cardinality(AuthorsOf(<<EmittedPages[2]>>)) = 1
    /\ Cardinality(users) = 2

FetchFails == Len(responses') = Len(responses) + 1 /\ ~IsOk(Last(responses'))

\* C10: a fetch that fails (transport, decode) prints nothing to stdout, leaves the
\* cursor, the user set and the collected profiles alone, sends nothing, ends the
\* run in failure, and no step follows it.
FailedFetchIsFatal ==
    /\ [][FetchFails =>
            /\ stdout' = stdout
            /\ last_note' = last_note
            /\ users' = users
            /\ user_info' = user_info
            /\ requests' = requests
            /\ pc' \in Failed]_vars
    /\ [][pc \notin Failed]_vars

\* C10 witness: the second fetch failed after the first had printed its records
FailedAfterOutput ==
    /\ pc \in Failed
    /\ Len(responses) = 2
    /\ stdout # <<>>
    /\ Len(requests) = 2

====
